---- MODULE Spec2Model ----
(***************************************************************************)
(* Model of the retrieval-augmented generation loop of                     *)
(* 05-agentic-rag/code_samples/05-semantic-kernel-azuresearch.ipynb:       *)
(* get_retrieval_context, PromptPlugin.build_augmented_prompt,             *)
(* get_augmented_prompt and main.                                          *)
(*                                                                         *)
(* A Python str is a sequence of one-character strings, so formatting,     *)
(* joining and stripping are computed character by character.              *)
(***************************************************************************)
EXTENDS Integers, Sequences, FiniteSets

\* ------------------------------------------------------------------------
\* Bounds of the model
\* ------------------------------------------------------------------------

\* most matches the index returns for one query
MaxMatches == 3

\* most fragments the agent streams of one run of main yield in total
MaxFragments == 3

\* ------------------------------------------------------------------------
\* String literals of the source
\* ------------------------------------------------------------------------

DocumentLabel == <<"D", "o", "c", "u", "m", "e", "n", "t", ":", " ">>

Separator == <<"\n", "\n">>

NoResultsFound == <<"N", "o", " ", "r", "e", "s", "u", "l", "t", "s", " ", "f", "o", "u", "n", "d">>

ContextLabel == <<"R", "e", "t", "r", "i", "e", "v", "e", "d", " ", "C", "o", "n", "t", "e", "x", "t", ":", "\n">>

QueryLabel == <<"U", "s", "e", "r", " ", "Q", "u", "e", "r", "y", ":", " ">>

Instruction == <<"B", "a", "s", "e", "d", " ", "O", "N", "L", "Y", " ", "o", "n", " ", "t", "h", "e", " ", "a", "b", "o", "v", "e", " ", "c", "o", "n", "t", "e", "x", "t", ",", " ", "p", "l", "e", "a", "s", "e", " ", "p", "r", "o", "v", "i", "d", "e", " ", "y", "o", "u", "r", " ", "a", "n", "s", "w", "e", "r", ".">>

AGENT_NAME == <<"T", "r", "a", "v", "e", "l", "A", "g", "e", "n", "t">>

UserLinePrefix == <<"#", " ", "U", "s", "e", "r", ":", " ", "'">>

AssistantPrefix == <<"#", " ", "A", "s", "s", "i", "s", "t", "a", "n", "t", " ", "-", " ">>

HeaderSuffix == <<":", " ", "'">>

\* str(None), what an f-string prints for None
NoneText == <<"N", "o", "n", "e">>

\* the value None of Python: a value that is no str
None == <<"<None>">>

\* the characters str.strip() removes
Whitespace == {" ", "\n", "\t", "\r"}

\* ------------------------------------------------------------------------
\* Pure functions
\* ------------------------------------------------------------------------

\* sep.join(strings)
RECURSIVE Join(_, _)
Join(sep, strings) ==
    IF strings = <<>> THEN <<>>
    ELSE IF Len(strings) = 1 THEN Head(strings)
    ELSE Head(strings) \o sep \o Join(sep, Tail(strings))

\* s.lstrip()
RECURSIVE LStrip(_)
LStrip(s) ==
    IF s = <<>> THEN <<>>
    ELSE IF Head(s) \in Whitespace THEN LStrip(Tail(s))
    ELSE s

\* s.rstrip()
RECURSIVE RStrip(_)
RStrip(s) ==
    IF s = <<>> THEN <<>>
    ELSE IF s[Len(s)] \in Whitespace THEN RStrip(SubSeq(s, 1, Len(s) - 1))
    ELSE s

\* s.strip()
Strip(s) == RStrip(LStrip(s))

\* ContextStrings without the label: an entry is the content alone
RECURSIVE ContextStrings_NoLabel(_)
ContextStrings_NoLabel(results) ==
    IF results = <<>> THEN <<>>
    ELSE <<Head(results).content>> \o ContextStrings_NoLabel(Tail(results))

\* ContextStrings with each entry put in front of the list: rank order reversed
RECURSIVE ContextStrings_Reversed(_)
ContextStrings_Reversed(results) ==
    IF results = <<>> THEN <<>>
    ELSE ContextStrings_Reversed(Tail(results)) \o <<DocumentLabel \o Head(results).content>>

\* the list context_strings that the loop of get_retrieval_context builds
\* from the results of the search, one entry per result, in result order
RECURSIVE ContextStrings(_)
ContextStrings(results) ==
    IF results = <<>> THEN <<>>
    ELSE <<DocumentLabel \o Head(results).content>> \o ContextStrings(Tail(results))

\* RetrievalContextOf without the sentinel for an empty list
RetrievalContextOf_NoSentinel(results) ==
    Join(Separator, ContextStrings(results))

\* the value get_retrieval_context returns for the results of the search
RetrievalContextOf(results) ==
    IF ContextStrings(results) # <<>>
    THEN Join(Separator, ContextStrings(results))
    ELSE NoResultsFound

\* build_augmented_prompt with the query and the context in each other's place
build_augmented_prompt_Swapped(query, retrieval_context) ==
    ContextLabel \o query \o Separator
        \o QueryLabel \o retrieval_context \o Separator
        \o Instruction

\* PromptPlugin.build_augmented_prompt(query, retrieval_context)
build_augmented_prompt(query, retrieval_context) ==
    ContextLabel \o retrieval_context \o Separator
        \o QueryLabel \o query \o Separator
        \o Instruction

\* f"{value}" for a str or None
Format(value) == IF value = None THEN NoneText ELSE value

\* "not agent_name": None and the empty string are falsy
Falsy(value) == value = None \/ value = <<>>

\* any(isinstance(item, (FunctionCallContent, FunctionResultContent))
\*     for item in content.items)
HasFunctionItem(content) ==
    \E i \in 1..Len(content.items) :
        content.items[i] \in {"FunctionCallContent", "FunctionResultContent"}

\* ShouldPrint without the filter: every fragment is printed
ShouldPrint_Always(content) == TRUE

\* the condition under which main prints the content of a fragment
ShouldPrint(content) ==
    /\ ~HasFunctionItem(content)
    /\ Strip(content.content) # <<>>

\* "=" * n
RECURSIVE Repeat(_, _)
Repeat(c, n) == IF n = 0 THEN <<>> ELSE <<c>> \o Repeat(c, n - 1)

\* "\n" + "="*60 + "\n", followed by the newline print adds
SeparatorLine == <<"\n">> \o Repeat("=", 60) \o <<"\n", "\n">>

\* ------------------------------------------------------------------------
\* Inputs
\* ------------------------------------------------------------------------

\* number of entries of user_inputs
NumUserInputs == 2

\* the queries that user_inputs is drawn from
Queries == {<<"q">>, <<"n", "?">>}

\* the content fields of the documents the index may return
Contents == {<<"a">>, <<>>}

\* the ordered lists of matches search_client.search may return
SearchResults ==
    UNION {[1..n -> {[content |-> c] : c \in Contents}] : n \in 0..MaxMatches}

\* the fragments agent.invoke_stream may yield: name, items and content of
\* a StreamingChatMessageContent
Fragments ==
    { [name |-> AGENT_NAME, items |-> <<"StreamingTextContent">>, content |-> <<"H", "i">>],
      [name |-> None, items |-> <<"StreamingTextContent">>, content |-> <<"y">>],
      [name |-> AGENT_NAME, items |-> <<"StreamingTextContent">>, content |-> <<"\n">>],
      [name |-> AGENT_NAME, items |-> <<"FunctionCallContent">>, content |-> <<>>],
      [name |-> AGENT_NAME, items |-> <<"FunctionResultContent", "StreamingTextContent">>,
       content |-> <<"r">>] }

\* ------------------------------------------------------------------------
\* State
\* ------------------------------------------------------------------------

VARIABLES
    pc,                \* position of main
    turn,              \* index in user_inputs of the current user_input
    user_inputs,       \* the list main iterates over
    chat_history,      \* the ChatHistory: a list of [role, content]
    results,           \* get_retrieval_context: what the search returned
    retrieval_context, \* get_augmented_prompt: the retrieval context
    augmented_prompt,  \* main: the augmented prompt
    agent_name,        \* main: the agent name printed in the header
    stdout,            \* what print has written, one entry per print call
    arrived,           \* the fragments the current stream has yielded
    yielded,           \* number of fragments all streams have yielded
    error,             \* the exception that left main, if any
    retrieval_calls,   \* number of calls of search_client.search
    invocations,       \* number of calls of agent.invoke_stream
    invoked_with       \* the history given to the last agent.invoke_stream

vars == <<pc, turn, user_inputs, chat_history, results, retrieval_context,
          augmented_prompt, agent_name, stdout, arrived, yielded, error,
          retrieval_calls, invocations, invoked_with>>

\* the loop variable user_input
user_input == user_inputs[turn]

\* a message of the ChatHistory
Message(role, content) == [role |-> role, content |-> content]

\* one call of print
Printed(kind, text) == [kind |-> kind, text |-> text]

Init ==
    /\ pc = "Idle"
    /\ turn = 1
    /\ user_inputs \in [1..NumUserInputs -> Queries]
    /\ chat_history = <<>>
    /\ results = <<>>
    /\ retrieval_context = None
    /\ augmented_prompt = None
    /\ agent_name = None
    /\ stdout = <<>>
    /\ arrived = <<>>
    /\ yielded = 0
    /\ error = "none"
    /\ retrieval_calls = 0
    /\ invocations = 0
    /\ invoked_with = <<>>

\* ------------------------------------------------------------------------
\* get_retrieval_context and get_augmented_prompt
\* ------------------------------------------------------------------------

\* results = search_client.search(query), the search succeeds
Search ==
    /\ pc = "Idle"
    /\ \E r \in SearchResults : results' = r
    /\ retrieval_calls' = retrieval_calls + 1
    /\ pc' = "Searched"
    /\ UNCHANGED <<turn, user_inputs, chat_history, retrieval_context,
                   augmented_prompt, agent_name, stdout, arrived, yielded, error,
                   invocations, invoked_with>>

\* SearchFails with the exception caught and an empty result in its place
SearchFails_Swallowed ==
    /\ pc = "Idle"
    /\ retrieval_calls' = retrieval_calls + 1
    /\ results' = <<>>
    /\ pc' = "Searched"
    /\ error' = "RetrievalError"
    /\ UNCHANGED <<turn, user_inputs, chat_history, retrieval_context,
                   augmented_prompt, agent_name, stdout, arrived, yielded,
                   invocations, invoked_with>>

\* SearchFails with a retry: the failure leads back to the search
SearchFails_Retried ==
    /\ pc = "Idle"
    /\ retrieval_calls' = retrieval_calls + 1
    /\ UNCHANGED <<pc, turn, user_inputs, chat_history, results,
                   retrieval_context, augmented_prompt, agent_name, stdout,
                   arrived, yielded, error, invocations, invoked_with>>

\* the search raises: nothing catches the exception, it leaves
\* get_retrieval_context, get_augmented_prompt and main
SearchFails ==
    /\ pc = "Idle"
    /\ retrieval_calls' = retrieval_calls + 1
    /\ pc' = "Failed"
    /\ error' = "RetrievalError"
    /\ UNCHANGED <<turn, user_inputs, chat_history, results, retrieval_context,
                   augmented_prompt, agent_name, stdout, arrived, yielded,
                   invocations, invoked_with>>

\* the loop over results and the return of get_retrieval_context
GetRetrievalContext ==
    /\ pc = "Searched"
    /\ retrieval_context' = RetrievalContextOf(results)
    /\ pc' = "Retrieved"
    /\ UNCHANGED <<turn, user_inputs, chat_history, results, augmented_prompt,
                   agent_name, stdout, arrived, yielded, error, retrieval_calls,
                   invocations, invoked_with>>

\* augmented_prompt = await get_augmented_prompt(user_input)
GetAugmentedPrompt ==
    /\ pc = "Retrieved"
    /\ augmented_prompt' = build_augmented_prompt(user_input, retrieval_context)
    /\ pc' = "ContextBuilt"
    /\ UNCHANGED <<turn, user_inputs, chat_history, results, retrieval_context,
                   agent_name, stdout, arrived, yielded, error, retrieval_calls,
                   invocations, invoked_with>>

\* ------------------------------------------------------------------------
\* main
\* ------------------------------------------------------------------------

\* AddSystemMessage with the raw query in place of the augmented prompt
AddSystemMessage_RawQuery ==
    /\ pc = "ContextBuilt"
    /\ chat_history' = Append(chat_history, Message("system", user_input))
    /\ pc' = "SystemAdded"
    /\ UNCHANGED <<turn, user_inputs, results, retrieval_context,
                   augmented_prompt, agent_name, stdout, arrived, yielded, error,
                   retrieval_calls, invocations, invoked_with>>

\* chat_history.add_system_message(augmented_prompt)
AddSystemMessage ==
    /\ pc = "ContextBuilt"
    /\ chat_history' = Append(chat_history, Message("system", augmented_prompt))
    /\ pc' = "SystemAdded"
    /\ UNCHANGED <<turn, user_inputs, results, retrieval_context,
                   augmented_prompt, agent_name, stdout, arrived, yielded, error,
                   retrieval_calls, invocations, invoked_with>>

\* chat_history.add_user_message(user_input), then the prints before the
\* stream and agent_name = None
AddUserMessage ==
    /\ pc = "SystemAdded"
    /\ chat_history' = Append(chat_history, Message("user", user_input))
    /\ stdout' = stdout \o
           << Printed("user", UserLinePrefix \o user_input \o <<"'", "\n">>),
              Printed("assistant", AssistantPrefix) >>
    /\ agent_name' = None
    /\ pc' = "HistoryPrimed"
    /\ UNCHANGED <<turn, user_inputs, results, retrieval_context,
                   augmented_prompt, arrived, yielded, error, retrieval_calls,
                   invocations, invoked_with>>

\* agent.invoke_stream(chat_history)
InvokeStream ==
    /\ pc = "HistoryPrimed"
    /\ invoked_with' = chat_history
    /\ invocations' = invocations + 1
    /\ arrived' = <<>>
    /\ pc' = "Streaming"
    /\ UNCHANGED <<turn, user_inputs, chat_history, results, retrieval_context,
                   augmented_prompt, agent_name, stdout, yielded, error,
                   retrieval_calls>>

\* what one pass of the body of the async for prints for a fragment
HeaderOf(content) ==
    IF Falsy(agent_name)
    THEN <<Printed("header", Format(content.name) \o HeaderSuffix)>>
    ELSE <<>>

TextOf(content) ==
    IF ShouldPrint(content)
    THEN <<Printed("text", Format(content.content))>>
    ELSE <<>>

\* the stream yields a fragment and the body of the async for runs
NextFragment ==
    /\ pc = "Streaming"
    /\ yielded < MaxFragments
    /\ yielded' = yielded + 1
    /\ \E content \in Fragments :
        /\ arrived' = Append(arrived, content)
        /\ agent_name' = IF Falsy(agent_name) THEN content.name ELSE agent_name
        /\ stdout' = stdout \o HeaderOf(content) \o TextOf(content)
    /\ UNCHANGED <<pc, turn, user_inputs, chat_history, results,
                   retrieval_context, augmented_prompt, error,
                   retrieval_calls, invocations, invoked_with>>

\* StreamFails with the last print taken back
StreamFails_Retracted ==
    /\ pc = "Streaming"
    /\ pc' = "Failed"
    /\ error' = "GenerationError"
    /\ stdout' = SubSeq(stdout, 1, Len(stdout) - 1)
    /\ UNCHANGED <<turn, user_inputs, chat_history, results, retrieval_context,
                   augmented_prompt, agent_name, arrived, yielded,
                   retrieval_calls, invocations, invoked_with>>

\* the stream raises, at the invocation (no fragment yet) or between two
\* fragments: nothing catches the exception, it leaves main
StreamFails ==
    /\ pc = "Streaming"
    /\ pc' = "Failed"
    /\ error' = "GenerationError"
    /\ UNCHANGED <<turn, user_inputs, chat_history, results, retrieval_context,
                   augmented_prompt, agent_name, stdout, arrived, yielded,
                   retrieval_calls, invocations, invoked_with>>

\* the stream is exhausted: print("\n" + "="*60 + "\n")
StreamEnds ==
    /\ pc = "Streaming"
    /\ stdout' = Append(stdout, Printed("separator", SeparatorLine))
    /\ pc' = "StreamExhausted"
    /\ UNCHANGED <<turn, user_inputs, chat_history, results, retrieval_context,
                   augmented_prompt, agent_name, arrived, yielded, error,
                   retrieval_calls, invocations, invoked_with>>

\* ResetHistory without the new ChatHistory: the history is kept
ResetHistory_Kept ==
    /\ pc = "StreamExhausted"
    /\ arrived' = <<>>
    /\ invoked_with' = <<>>
    /\ pc' = "Done"
    /\ UNCHANGED <<turn, user_inputs, chat_history, results, retrieval_context,
                   augmented_prompt, agent_name, stdout, yielded, error,
                   retrieval_calls, invocations>>

\* chat_history = ChatHistory(), the last statement of the loop body; the
\* stream of the turn is gone, and with it the record of its fragments and
\* of the history it was given
ResetHistory ==
    /\ pc = "StreamExhausted"
    /\ chat_history' = <<>>
    /\ arrived' = <<>>
    /\ invoked_with' = <<>>
    /\ pc' = "Done"
    /\ UNCHANGED <<turn, user_inputs, results, retrieval_context,
                   augmented_prompt, agent_name, stdout, yielded, error,
                   retrieval_calls, invocations>>

\* NextTurn that keeps the prompt of the turn before: no retrieval
NextTurn_NoRetrieval ==
    /\ pc = "Done"
    /\ turn < Len(user_inputs)
    /\ turn' = turn + 1
    /\ pc' = "ContextBuilt"
    /\ UNCHANGED <<user_inputs, chat_history, results, retrieval_context,
                   augmented_prompt, agent_name, stdout, arrived, yielded, error,
                   retrieval_calls, invocations, invoked_with>>

\* for user_input in user_inputs: the next element
NextTurn ==
    /\ pc = "Done"
    /\ turn < Len(user_inputs)
    /\ turn' = turn + 1
    /\ pc' = "Idle"
    /\ UNCHANGED <<user_inputs, chat_history, results, retrieval_context,
                   augmented_prompt, agent_name, stdout, arrived, yielded, error,
                   retrieval_calls, invocations, invoked_with>>

\* Return that does not look at what is left of user_inputs
Return_Early ==
    /\ pc = "Done"
    /\ pc' = "Finished"
    /\ UNCHANGED <<turn, user_inputs, chat_history, results, retrieval_context,
                   augmented_prompt, agent_name, stdout, arrived, yielded, error,
                   retrieval_calls, invocations, invoked_with>>

\* for user_input in user_inputs: the list is exhausted, main returns
Return ==
    /\ pc = "Done"
    /\ turn = Len(user_inputs)
    /\ pc' = "Finished"
    /\ UNCHANGED <<turn, user_inputs, chat_history, results, retrieval_context,
                   augmented_prompt, agent_name, stdout, arrived, yielded, error,
                   retrieval_calls, invocations, invoked_with>>

Next ==
    \/ Search
    \/ SearchFails
    \/ GetRetrievalContext
    \/ GetAugmentedPrompt
    \/ AddSystemMessage
    \/ AddUserMessage
    \/ InvokeStream
    \/ NextFragment
    \/ StreamFails
    \/ StreamEnds
    \/ ResetHistory
    \/ NextTurn
    \/ Return

Spec == Init /\ [][Next]_vars

\* main as the notebook runs it: user_inputs is a list of two different
\* queries
FairInit ==
    /\ Init
    /\ user_inputs = <<<<"q">>, <<"n", "?">>>>

\* main is one coroutine that runs to its end: while a step is possible, one
\* is taken (the awaited search returns or raises, the stream yields, ends or
\* raises)
FairSpec == FairInit /\ [][Next]_vars /\ WF_vars(Next)

\* ------------------------------------------------------------------------
\* Properties
\* ------------------------------------------------------------------------

\* text is laid out as the labelled context block, the labelled query block
\* and the instruction, stated position by position
IsAugmentedPrompt(text, query, context) ==
    LET c0 == Len(ContextLabel)
        c1 == c0 + Len(context)
        q0 == c1 + Len(Separator) + Len(QueryLabel)
        q1 == q0 + Len(query)
        i0 == q1 + Len(Separator)
    IN  /\ Len(text) = i0 + Len(Instruction)
        /\ SubSeq(text, 1, c0) = ContextLabel
        /\ SubSeq(text, c0 + 1, c1) = context
        /\ SubSeq(text, c1 + 1, c1 + Len(Separator)) = Separator
        /\ SubSeq(text, c1 + Len(Separator) + 1, q0) = QueryLabel
        /\ SubSeq(text, q0 + 1, q1) = query
        /\ SubSeq(text, q1 + 1, i0) = Separator
        /\ SubSeq(text, i0 + 1, Len(text)) = Instruction

\* C1: in every turn, the history given to the agent at its invocation is
\* exactly two messages, the system message with the augmented prompt of this
\* turn's query and then the user message with this turn's raw query; the
\* history about to be given holds the same two messages
C1_HistoryAtInvocation ==
    LET primed == IF pc = "HistoryPrimed" THEN chat_history ELSE invoked_with
    IN  pc \in {"HistoryPrimed", "Streaming"} =>
            /\ Len(primed) = 2
            /\ primed[1].role = "system"
            /\ IsAugmentedPrompt(primed[1].content, user_input, retrieval_context)
            /\ primed[2].role = "user"
            /\ primed[2].content = user_input

\* C1 witness: the agent is invoked in the second turn, for a query that
\* differs from the first turn's
C1_Witness ==
    /\ pc = "Streaming"
    /\ turn = 2
    /\ user_inputs[1] # user_inputs[2]
    /\ Len(invoked_with) = 2
    /\ invoked_with[2].content = user_inputs[2]

\* C2: once the stream of a turn is exhausted and the turn is done, the
\* history is empty, the retrieval of the next turn has not started, and the
\* history is still empty when that retrieval starts and while the context of
\* the next turn is built
C2_ResetBeforeNextTurn ==
    /\ pc \in {"Done", "Finished"} =>
            /\ Len(chat_history) = 0
            /\ retrieval_calls = turn
    /\ pc = "Idle" =>
            /\ Len(chat_history) = 0
            /\ retrieval_calls = turn - 1
    /\ pc \in {"Searched", "Retrieved", "ContextBuilt"} => Len(chat_history) = 0

\* C2 witness: the retrieval of the second turn has started, after a first
\* turn that primed the history and streamed a fragment
C2_Witness ==
    /\ pc = "Searched"
    /\ turn = 2
    /\ retrieval_calls = 2
    /\ yielded > 0
    /\ chat_history = <<>>

\* the concatenation of a list of strings
RECURSIVE Concat(_)
Concat(strings) ==
    IF strings = <<>> THEN <<>> ELSE Head(strings) \o Concat(Tail(strings))

\* the entries of an output that print the content of a fragment
TextEntries(out) == SelectSeq(out, LAMBDA e : e.kind = "text")

\* the position in stdout of the "# User:" line of the current turn
RECURSIVE LastUserLine(_)
LastUserLine(out) ==
    IF out = <<>> THEN 0
    ELSE IF out[Len(out)].kind = "user" THEN Len(out)
    ELSE LastUserLine(SubSeq(out, 1, Len(out) - 1))

\* the assistant text displayed so far in the current turn
DisplayedText ==
    LET shown == TextEntries(SubSeq(stdout, LastUserLine(stdout) + 1, Len(stdout)))
    IN  Concat([i \in 1..Len(shown) |-> shown[i].text])

\* a fragment that is only a tool-call or tool-result marker: every item is
\* a function call or a function result, and there is no text
PureMarker(content) ==
    /\ \A i \in 1..Len(content.items) :
           content.items[i] \in {"FunctionCallContent", "FunctionResultContent"}
    /\ content.content = <<>>

\* a step in which the stream yields a fragment
FragmentArrives ==
    /\ pc = "Streaming"
    /\ Len(arrived') = Len(arrived) + 1

\* C3: when a fragment that is only a tool-call or tool-result marker
\* arrives, no print of fragment content is made: the text entries of the
\* output are the same before and after the fragment
C3_MarkersNeverDisplayed ==
    [][(FragmentArrives /\ PureMarker(arrived'[Len(arrived')]))
           => TextEntries(stdout') = TextEntries(stdout)]_vars

\* C3 witness: a marker-only fragment has arrived after a displayed text
\* fragment, and the last thing printed is still that text
C3_Witness ==
    /\ pc = "Streaming"
    /\ Len(arrived) = 2
    /\ arrived[1].content = <<"H", "i">>
    /\ PureMarker(arrived[2])
    /\ stdout[Len(stdout)] = Printed("text", <<"H", "i">>)

\* the full response of a stream: the text of its fragments in arrival order
FullResponse(fragments) ==
    Concat([i \in 1..Len(fragments) |-> fragments[i].content])

\* C4 as claimed: when the stream is exhausted, the assistant text displayed
\* for the turn is the concatenation, in arrival order, of the text of all
\* the fragments of the stream
C4_DisplayedIsFullResponse ==
    pc = "StreamExhausted" => DisplayedText = FullResponse(arrived)

\* C5 as claimed: every fragment with displayable text, one that also carries
\* a marker item included, is printed when it arrives, and a fragment is left
\* out only if it carries a marker item and no displayable text
C5_OnlyPureMarkersFiltered ==
    [][FragmentArrives =>
          LET content == arrived'[Len(arrived')]
              printed == /\ stdout' # <<>>
                         /\ Len(TextEntries(stdout')) = Len(TextEntries(stdout)) + 1
                         /\ stdout'[Len(stdout')] = Printed("text", content.content)
          IN  /\ Strip(content.content) # <<>> => printed
              /\ ~printed => (HasFunctionItem(content) /\ Strip(content.content) = <<>>)
      ]_vars

\* the position before entry i of a context built from the matches rs
RECURSIVE EntryOffset(_, _)
EntryOffset(rs, i) ==
    IF i = 1 THEN 0
    ELSE EntryOffset(rs, i - 1) + Len(DocumentLabel) + Len(rs[i - 1].content)
             + Len(Separator)

\* context holds one entry per match of rs and nothing else: entry i is the
\* label followed by the content of match i, and a blank line separates
\* consecutive entries
IsContextOf(context, rs) ==
    LET n == Len(rs)
        EndOf(i) == EntryOffset(rs, i) + Len(DocumentLabel) + Len(rs[i].content)
    IN  /\ n > 0
        /\ Len(context) = EndOf(n)
        /\ \A i \in 1..n :
            /\ SubSeq(context, EntryOffset(rs, i) + 1,
                      EntryOffset(rs, i) + Len(DocumentLabel)) = DocumentLabel
            /\ SubSeq(context, EntryOffset(rs, i) + Len(DocumentLabel) + 1,
                      EndOf(i)) = rs[i].content
            /\ i < n => SubSeq(context, EndOf(i) + 1, EndOf(i) + Len(Separator))
                            = Separator

\* C6: when the search returned no match, get_retrieval_context returns the
\* sentinel "No results found", which is not the empty string, and no
\* exception is raised
C6_NoMatchesGivesSentinel ==
    [][(pc = "Searched" /\ results = <<>>)
           => /\ pc' = "Retrieved"
              /\ retrieval_context' = NoResultsFound
              /\ retrieval_context' # <<>>
              /\ error' = "none"]_vars

\* C6 witness: get_retrieval_context has returned for a search with no match
C6_Witness ==
    /\ pc = "Retrieved"
    /\ results = <<>>
    /\ retrieval_context = NoResultsFound

C8_TopTwoOnly ==
    pc = "Retrieved" =>
        LET top == SubSeq(results, 1, IF Len(results) < 2 THEN Len(results) ELSE 2)
        IN  IF top = <<>> THEN retrieval_context = NoResultsFound
            ELSE IsContextOf(retrieval_context, top)

\* C9: building the augmented prompt always succeeds, changes nothing but
\* the prompt it returns, and the prompt is determined by the query and the
\* context: the "Retrieved Context:" block with the context, then the
\* "User Query: " block with the query, then the instruction, last
C9_AugmentedPromptLayout ==
    [][pc = "Retrieved"
           => /\ pc' = "ContextBuilt"
              /\ IsAugmentedPrompt(augmented_prompt', user_input, retrieval_context)
              /\ UNCHANGED <<turn, user_inputs, chat_history, results,
                             retrieval_context, agent_name, stdout, arrived,
                             yielded, error, retrieval_calls, invocations,
                             invoked_with>>]_vars

\* C9 witness: the prompt of the second turn is built, from a context with a
\* document
C9_Witness ==
    /\ pc = "ContextBuilt"
    /\ turn = 2
    /\ Len(results) = 2
    /\ IsAugmentedPrompt(augmented_prompt, user_inputs[2], retrieval_context)

\* the number of "# User:" lines printed
UserLines == Len(SelectSeq(stdout, LAMBDA e : e.kind = "user"))

\* C10: when the retrieval fails, main ends with the error and takes no
\* further step, the history is as it was at the start of the turn (empty),
\* the agent has not been invoked for the turn and nothing was printed for it
C10_RetrievalFailureAborts ==
    error = "RetrievalError" =>
        /\ pc = "Failed"
        /\ ~ENABLED Next
        /\ chat_history = <<>>
        /\ invocations = turn - 1
        /\ UserLines = turn - 1

\* C10 witness: the retrieval of the second turn failed, after a first turn
\* that streamed a fragment
C10_Witness ==
    /\ error = "RetrievalError"
    /\ pc = "Failed"
    /\ turn = 2
    /\ yielded > 0
    /\ invocations = 1

\* out is the beginning of longer
IsPrefix(out, longer) ==
    /\ Len(out) <= Len(longer)
    /\ SubSeq(longer, 1, Len(out)) = out

\* C11: the output only ever grows by appending; when the stream fails, at
\* the invocation or after some fragments, main ends with the error, the
\* output is exactly what it was after the fragments that arrived, and it
\* stays so
C11_StreamFailureKeepsOutput ==
    [][/\ IsPrefix(stdout, stdout')
       /\ (error = "none" /\ error' = "GenerationError")
              => /\ pc = "Streaming"
                 /\ pc' = "Failed"
                 /\ stdout' = stdout
                 /\ arrived' = arrived
       /\ error = "GenerationError" => (stdout' = stdout /\ pc' = "Failed")
      ]_vars

\* C11 witness: the stream failed after two fragments, the first of them
\* displayed, and the displayed text is still on the output
C11_Witness ==
    /\ error = "GenerationError"
    /\ pc = "Failed"
    /\ Len(arrived) = 2
    /\ ShouldPrint(arrived[1])
    /\ DisplayedText = arrived[1].content \o (IF ShouldPrint(arrived[2])
                                              THEN arrived[2].content ELSE <<>>)

\* the state of the turn state machine that a position of main belongs to
TurnState(at) ==
    CASE at \in {"Idle", "Searched", "Retrieved"} -> "Idle"
      [] at \in {"ContextBuilt", "SystemAdded"} -> "ContextBuilt"
      [] at = "HistoryPrimed" -> "HistoryPrimed"
      [] at \in {"Streaming", "StreamExhausted"} -> "Streaming"
      [] at = "Done" -> "Done"
      [] OTHER -> at

\* the steps of the turn state machine: the fixed order within a turn, the
\* start of the next turn after Done, the return of main after Done, and the
\* failures of the retrieval and of the stream
TurnOrder ==
    { <<"Idle", "ContextBuilt">>, <<"ContextBuilt", "HistoryPrimed">>,
      <<"HistoryPrimed", "Streaming">>, <<"Streaming", "Done">>,
      <<"Done", "Idle">>, <<"Done", "Finished">>,
      <<"Idle", "Failed">>, <<"Streaming", "Failed">> }

\* C12: a turn goes through Idle, ContextBuilt, HistoryPrimed, Streaming and
\* Done in this order, without skipping or repeating a state; a message is
\* appended only once the retrieval and the augmented prompt of the turn are
\* done; the agent is invoked only with both messages appended; and the next
\* turn starts only from Done, so that one turn at most is in progress
C12_TurnOrder ==
    [][/\ TurnState(pc') # TurnState(pc)
              => <<TurnState(pc), TurnState(pc')>> \in TurnOrder
       /\ turn' # turn
              => (pc = "Done" /\ pc' = "Idle" /\ turn' = turn + 1)
       /\ Len(chat_history') > Len(chat_history)
              => /\ TurnState(pc) = "ContextBuilt"
                 /\ retrieval_calls = turn
                 /\ IsAugmentedPrompt(augmented_prompt, user_input, retrieval_context)
       /\ invocations' # invocations
              => /\ pc = "HistoryPrimed"
                 /\ Len(chat_history) = 2
                 /\ invocations' = turn
      ]_vars

\* C12 witness: the second turn is done, after a first turn that went through
\* every state and streamed a fragment
C12_Witness ==
    /\ pc = "Done"
    /\ turn = 2
    /\ invocations = 2
    /\ retrieval_calls = 2
    /\ yielded > 1

\* C13: in every turn the search is issued at most once and the agent stream
\* is started at most once, a stream is consumed only by the turn that
\* started it, and after a failure no search is issued and no stream is
\* started or consumed
C13_NoRetry ==
    [][/\ retrieval_calls' <= turn'
       /\ invocations' <= turn'
       /\ Len(arrived') > Len(arrived) => invocations = turn
       /\ error # "none"
              => /\ retrieval_calls' = retrieval_calls
                 /\ invocations' = invocations
                 /\ arrived' = arrived
      ]_vars

\* C13 witness: the stream of the second turn failed, with two searches and
\* two invocations made in two turns
C13_Witness ==
    /\ pc = "Failed"
    /\ error = "GenerationError"
    /\ turn = 2
    /\ retrieval_calls = 2
    /\ invocations = 2

\* the "# User:" lines of the output, in the order they were printed
UserLinesPrinted == SelectSeq(stdout, LAMBDA e : e.kind = "user")

\* every query of user_inputs was processed once, in the order of the list
AllProcessedInOrder ==
    /\ UserLinesPrinted =
           [i \in 1..Len(user_inputs) |->
               Printed("user", UserLinePrefix \o user_inputs[i] \o <<"'", "\n">>)]
    /\ retrieval_calls = Len(user_inputs)
    /\ invocations = Len(user_inputs)
    /\ turn = Len(user_inputs)

\* C14: unless a retrieval or a stream fails, every turn that starts reaches
\* Done and main finishes, and when main has finished every query of
\* user_inputs was processed exactly once, in list order (a stream is finite:
\* it yields at most MaxFragments fragments)
C14_EveryTurnCompletes ==
    /\ \A t \in 1..NumUserInputs :
           (pc = "Idle" /\ turn = t) ~> (error # "none" \/ (pc = "Done" /\ turn = t))
    /\ <>(error # "none" \/ pc = "Finished")
    /\ [](pc = "Finished" => AllProcessedInOrder)

\* C14 witness: main has finished without an error, after two turns for
\* different queries whose streams yielded MaxFragments fragments
C14_Witness ==
    /\ pc = "Finished"
    /\ error = "none"
    /\ user_inputs[1] # user_inputs[2]
    /\ AllProcessedInOrder
    /\ yielded = MaxFragments

\* what was printed in the current turn after its "# User:" line
TurnOutput == SubSeq(stdout, LastUserLine(stdout) + 1, Len(stdout))

\* C15 as claimed: in a turn whose stream has yielded a fragment, the header
\* with the agent name was printed exactly once, right after the
\* "# Assistant - " prefix and so before any text of the turn, whatever the
\* names of the fragments
C15_HeaderOnce ==
    (pc \in {"Streaming", "StreamExhausted"} /\ Len(arrived) >= 1) =>
        /\ Len(SelectSeq(TurnOutput, LAMBDA e : e.kind = "header")) = 1
        /\ TurnOutput[1].kind = "assistant"
        /\ TurnOutput[2].kind = "header"

\* C16: get_retrieval_context returns the sentinel exactly when the search
\* returned no match; for a non-empty list of matches, empty contents
\* included, the returned string is not empty and is not the sentinel
C16_SentinelIffNoMatch ==
    pc = "Retrieved" =>
        /\ (retrieval_context = NoResultsFound) <=> (results = <<>>)
        /\ results # <<>> => retrieval_context # <<>>

\* C16 witness: get_retrieval_context has returned for matches that all have
\* an empty content
C16_Witness ==
    /\ pc = "Retrieved"
    /\ Len(results) = 2
    /\ \A i \in 1..Len(results) : results[i].content = <<>>
    /\ retrieval_context = DocumentLabel \o Separator \o DocumentLabel

====
